---- MODULE Spec2Model ----
(***************************************************************************)
(* Model of the PBPStats fetchers.                                         *)
(*                                                                         *)
(*   fetch_onoff.py          main / pull_block / lineuppull / get_filename *)
(*   fetch_season_totals.py  main / fetch_totals / update_csv /            *)
(*                           add_derived_cols                              *)
(*                                                                         *)
(* The specifications share the variables:                                 *)
(*   Spec       one run of either program (Init picks which one starts),   *)
(*   OnOffSpec  one run of fetch_onoff.py,                                 *)
(*   FairSpec   OnOffSpec with weak fairness: every remote request         *)
(*              returns or raises in the end,                              *)
(*   TotalsSpec one run of fetch_season_totals.py,                         *)
(*   MergeSpec  update_csv applied again and again to one aggregate file   *)
(*              that starts absent or with an arbitrary table.             *)
(*                                                                         *)
(* A definition named X_Mut is X with a plausible slip in it; the claims   *)
(* are checked to fail when it takes the place of X.                       *)
(***************************************************************************)
EXTENDS Integers, Sequences, FiniteSets, TLC

\* ------------------------------------------------------------------ bounds
MaxTeams == 2          \* the roster holds at most this many team ids
MaxYear == 3           \* season years are 1..MaxYear
MaxInitRows == 2       \* rows of the aggregate file MergeSpec starts from

\* ------------------------------------------------------- program constants
MAX_RETRIES == 5       \* fetch_onoff.py:62
max_retries == 15      \* fetch_season_totals.py:68
MIN_ROWS == 2          \* fetch_onoff.py:167, the literal in len(df) > 2

TeamIds == 1..MaxTeams

\* fetch_team_ids returns sorted(unique ids): a strictly ascending list.
\* The model draws the rosters 1..n.
Rosters == {[i \in 1..n |-> i] : n \in 0..MaxTeams}

\* What one remote request can come to: a transport error (timeout,
\* connection refused), or an HTTP response with a status and a body that
\* holds the expected table field or does not.
Responses ==
    {"transport_error", "http200_table", "http200_malformed",
     "http500_table", "http500_malformed"}

StatusOk(resp) == resp \in {"http200_table", "http200_malformed"}
HasTable(resp) == resp \in {"http200_table", "http500_table"}

\* Row counts of a fetched multi_row_table_data table.
RowCounts == {MIN_ROWS, MIN_ROWS + 1}

VARIABLES
    \* ---- fetch_onoff.py
    pc,           \* position of main: idle, main, block_start, loop, summary, exited, aborted
    team_ids,     \* the roster fetch_team_ids returned
    leverage,     \* the leverage argument of the running pull_block
    opp,          \* loop variable of "for opp in [False, True]"
    idx,          \* 1-based position of team_id in team_ids
    attempts,     \* the local attempts of the retry loop
    reqs,         \* remote requests made for the current unit
    waited,       \* the sleeps since the last remote request
    team_frames,  \* pull_block's accumulators
    vs_frames,
    fail_list,
    returned,     \* what pull_block returned, per leverage flag
    files,        \* output/data/{year}/: filename -> file
    file_count,   \* the "Files written" figure of the summary
    exit_code,    \* -1 while running, else the process exit status
    cycles,       \* unit -> attempt cycles it went through
    last          \* the unit that completed last, with its counters

onoffVars ==
    <<pc, team_ids, leverage, opp, idx, attempts, reqs, waited, team_frames,
      vs_frames, fail_list, returned, files, file_count, exit_code, cycles, last>>

VARIABLES
    \* ---- fetch_season_totals.py
    tpc,          \* position of main: idle, fetch, finish, done
    ds,           \* the dataset main is at, 1..4
    attempt,      \* the loop variable of fetch_totals
    tyear,        \* the year of the run
    data,         \* data/: filename -> aggregate file
    tresult,      \* dataset -> pending, ok (merged) or failed (skipped)
    tlast,        \* the fetch_totals call that returned last
    twaited,      \* the sleeps of the last pass of fetch_totals' loop, in order
    texit         \* -1 while running, else the process exit status

totalsVars == <<tpc, ds, attempt, tyear, data, tresult, tlast, twaited, texit>>

VARIABLES
    \* ---- update_csv on one aggregate file
    csv,          \* the file at csv_path
    before,       \* the file as the last update_csv call found it
    lastNew,      \* the arguments of the last update_csv call
    synced        \* the years update_csv has merged into the file

mergeVars == <<csv, before, lastNew, synced>>

vars == <<onoffVars, totalsVars, mergeVars>>

\* ---------------------------------------------------------- fetch_onoff.py

\* lineuppull: requests.get may raise; raise_for_status raises on a bad
\* status; resp.json() / data["multi_row_table_data"] raise on a malformed
\* payload.  "table" when a DataFrame is returned, "raise" otherwise.
LineupPull(resp) ==
    IF resp = "transport_error" THEN "raise"
    ELSE IF ~StatusOk(resp) THEN "raise"
    ELSE IF ~HasTable(resp) THEN "raise"
    ELSE "table"

\* get_filename: {team_id}[_vs][_leverage].csv
get_filename(team_id, o, lev) ==
    ToString(team_id) \o (IF o THEN "_vs" ELSE "")
                      \o (IF lev THEN "_leverage" ELSE "") \o ".csv"

FileNames == {get_filename(t, o, l) : t \in TeamIds, o \in BOOLEAN, l \in BOOLEAN}

NoFile == [exists |-> FALSE, rows |-> 0, run |-> 0]
\* A file an earlier run of the same year left: it was written, so it has
\* more than MIN_ROWS rows.
OldFile == [exists |-> TRUE, rows |-> MIN_ROWS + 1, run |-> 0]

Units == BOOLEAN \X BOOLEAN \X TeamIds      \* <<leverage, opp, team_id>>

Side(o) == IF o THEN "Opponent" ELSE "Team"

NoLast ==
    [kind |-> "none", lev |-> FALSE, opp |-> FALSE, team_id |-> 0,
     attempts |-> 0, requests |-> 0, rows |-> 0, resp |-> "none"]

NoReturn == [done |-> FALSE, team_frames |-> <<>>, vs_frames |-> <<>>, fail_list |-> <<>>]

\* while attempts < MAX_RETRIES and not success
RetryLoopContinues_Mut(a, success) == a <= MAX_RETRIES /\ ~success
RetryLoopContinues(a, success) == a < MAX_RETRIES /\ ~success

\* if len(df) > 2: df.to_csv(filepath, index=False)
ShouldPersist_Mut(n) == n >= MIN_ROWS
ShouldPersist(n) == n > MIN_ROWS

\* if attempts < MAX_RETRIES: time.sleep(RETRY_DELAY)
RetryWait_Mut(a) == <<"RETRY_DELAY">>
RetryWait(a) == IF a < MAX_RETRIES THEN <<"RETRY_DELAY">> ELSE <<>>

\* fail_list.append((team_id, side))
RecordFailure_Front(fl, team_id, side) == <<<<team_id, side>>>> \o fl
RecordFailure_Mut(fl, team_id, side) == fl
RecordFailure(fl, team_id, side) == Append(fl, <<team_id, side>>)

\* "continue" after a terminal failure: the for loop goes to the next team.
AfterFailure_Mut(i, roster) == Len(roster) + 1
AfterFailure(i, roster) == i + 1

\* if all_fails: sys.exit(1); falling off main exits 0
ExitStatus_Mut(all_fails) == IF Len(all_fails) > 1 THEN 1 ELSE 0
ExitStatus(all_fails) == IF all_fails # <<>> THEN 1 ELSE 0

\* len([f for f in os.listdir(data_dir) if f.endswith(".csv")])
CountCsv(dir) == Cardinality({f \in DOMAIN dir : dir[f].exists})

InUnit == pc = "loop" /\ idx <= Len(team_ids)

\* team_ids = fetch_team_ids()
FetchTeamIds ==
    /\ UNCHANGED <<totalsVars, mergeVars>>
    /\ pc = "main"
    /\ \E r \in Rosters : team_ids' = r
    /\ pc' = "block_start"
    /\ leverage' = TRUE
    /\ UNCHANGED <<opp, idx, attempts, reqs, waited, team_frames, vs_frames,
                   fail_list, returned, files, file_count, exit_code, cycles, last>>

\* fetch_team_ids raises (pd.read_csv of the remote index fails): the
\* exception leaves main, the interpreter exits with status 1.
FetchTeamIdsRaises_Mut ==
    /\ UNCHANGED <<totalsVars, mergeVars>>
    /\ pc \in {"main", "block_start"}
    /\ pc' = "aborted"
    /\ exit_code' = 1
    /\ UNCHANGED <<team_ids, leverage, opp, idx, attempts, reqs, waited,
                   team_frames, vs_frames, fail_list, returned, files,
                   file_count, cycles, last>>
FetchTeamIdsRaises ==
    /\ UNCHANGED <<totalsVars, mergeVars>>
    /\ pc = "main"
    /\ pc' = "aborted"
    /\ exit_code' = 1
    /\ UNCHANGED <<team_ids, leverage, opp, idx, attempts, reqs, waited,
                   team_frames, vs_frames, fail_list, returned, files,
                   file_count, cycles, last>>

\* pull_block up to the first iteration: makedirs, empty accumulators.
PullBlockEnter ==
    /\ UNCHANGED <<totalsVars, mergeVars>>
    /\ pc = "block_start"
    /\ pc' = "loop"
    /\ opp' = FALSE
    /\ idx' = 1
    /\ attempts' = 0
    /\ reqs' = 0
    /\ team_frames' = <<>>
    /\ vs_frames' = <<>>
    /\ fail_list' = <<>>
    /\ UNCHANGED <<team_ids, leverage, waited, returned, files, file_count,
                   exit_code, cycles, last>>

\* One pass of the retry loop in which lineuppull returns a table, and
\* the rest of the iteration: tag, persist over the threshold, accumulate,
\* pace, next team.
AttemptOk ==
    /\ UNCHANGED <<totalsVars, mergeVars>>
    /\ InUnit
    /\ RetryLoopContinues(attempts, FALSE)
    /\ \E resp \in Responses, n \in RowCounts :
         /\ LineupPull(resp) = "table"
         /\ LET team_id == team_ids[idx]
                df == [team_id |-> team_id, team_vs |-> opp, rows |-> n]
                filename == get_filename(team_id, opp, leverage)
            IN /\ files' = IF ShouldPersist(n)
                           THEN [files EXCEPT ![filename] =
                                   [exists |-> TRUE, rows |-> n, run |-> 1]]
                           ELSE files
               /\ vs_frames' = IF opp THEN Append(vs_frames, df) ELSE vs_frames
               /\ team_frames' = IF opp THEN team_frames ELSE Append(team_frames, df)
               /\ cycles' = [cycles EXCEPT ![<<leverage, opp, team_id>>] = @ + 1]
               /\ last' = [kind |-> "success", lev |-> leverage, opp |-> opp,
                           team_id |-> team_id, attempts |-> attempts,
                           requests |-> reqs + 1, rows |-> n, resp |-> resp]
    /\ waited' = <<"SLEEP_BETWEEN">>
    /\ idx' = idx + 1
    /\ attempts' = 0
    /\ reqs' = 0
    /\ UNCHANGED <<pc, team_ids, leverage, opp, fail_list, returned,
                   file_count, exit_code>>

\* One pass of the retry loop in which lineuppull raises: count it, sleep
\* RETRY_DELAY unless it was the last one, and when the loop ends without
\* success record the failure and continue with the next team.
AttemptErr ==
    /\ UNCHANGED <<totalsVars, mergeVars>>
    /\ InUnit
    /\ RetryLoopContinues(attempts, FALSE)
    /\ \E resp \in Responses :
         /\ LineupPull(resp) = "raise"
         /\ LET team_id == team_ids[idx]
                a == attempts + 1
            IN IF RetryLoopContinues(a, FALSE)
               THEN /\ attempts' = a
                    /\ reqs' = reqs + 1
                    /\ waited' = RetryWait(a)
                    /\ UNCHANGED <<idx, fail_list, cycles, last>>
               ELSE /\ fail_list' = RecordFailure(fail_list, team_id, Side(opp))
                    /\ cycles' = [cycles EXCEPT ![<<leverage, opp, team_id>>] = @ + 1]
                    /\ last' = [kind |-> "failure", lev |-> leverage, opp |-> opp,
                                team_id |-> team_id, attempts |-> a,
                                requests |-> reqs + 1, rows |-> 0, resp |-> "none"]
                    /\ waited' = RetryWait(a)
                    /\ idx' = AfterFailure(idx, team_ids)
                    /\ attempts' = 0
                    /\ reqs' = 0
    /\ UNCHANGED <<pc, team_ids, leverage, opp, team_frames, vs_frames,
                   returned, files, file_count, exit_code>>

\* The inner for loop is exhausted for opp = False: on to opp = True.
NextSide ==
    /\ UNCHANGED <<totalsVars, mergeVars>>
    /\ pc = "loop"
    /\ idx > Len(team_ids)
    /\ ~opp
    /\ opp' = TRUE
    /\ idx' = 1
    /\ UNCHANGED <<pc, team_ids, leverage, attempts, reqs, waited, team_frames,
                   vs_frames, fail_list, returned, files, file_count,
                   exit_code, cycles, last>>

\* return team_frames, vs_frames, fail_list; main goes on to block 2 or
\* to the summary.
PullBlockReturn ==
    /\ UNCHANGED <<totalsVars, mergeVars>>
    /\ pc = "loop"
    /\ idx > Len(team_ids)
    /\ opp
    /\ returned' = [returned EXCEPT ![leverage] =
                      [done |-> TRUE, team_frames |-> team_frames,
                       vs_frames |-> vs_frames, fail_list |-> fail_list]]
    /\ IF leverage
       THEN pc' = "block_start" /\ leverage' = FALSE
       ELSE pc' = "summary" /\ UNCHANGED leverage
    /\ UNCHANGED <<team_ids, opp, idx, attempts, reqs, waited, team_frames,
                   vs_frames, fail_list, files, file_count, exit_code, cycles, last>>

\* The summary of main and its exit status.
Summary ==
    /\ UNCHANGED <<totalsVars, mergeVars>>
    /\ pc = "summary"
    /\ LET all_fails == returned[TRUE].fail_list \o returned[FALSE].fail_list
       IN exit_code' = ExitStatus(all_fails)
    /\ file_count' = CountCsv(files)
    /\ pc' = "exited"
    /\ UNCHANGED <<team_ids, leverage, opp, idx, attempts, reqs, waited,
                   team_frames, vs_frames, fail_list, returned, files, cycles, last>>

\* The output directory before the run: empty, or holding every file of
\* an earlier run of the same year.
InitOnOff ==
    /\ pc = "main"
    /\ team_ids = <<>>
    /\ leverage = TRUE
    /\ opp = FALSE
    /\ idx = 1
    /\ attempts = 0
    /\ reqs = 0
    /\ waited = <<>>
    /\ team_frames = <<>>
    /\ vs_frames = <<>>
    /\ fail_list = <<>>
    /\ returned = [l \in BOOLEAN |-> NoReturn]
    /\ \E old \in BOOLEAN :
         files = [f \in FileNames |-> IF old THEN OldFile ELSE NoFile]
    /\ file_count = 0
    /\ exit_code = -1
    /\ cycles = [u \in Units |-> 0]
    /\ last = NoLast

\* ------------------------------------------------- fetch_season_totals.py

Years == 1..MaxYear

\* The base columns of a single_row_table_data row.  The first line is the
\* worked example of the documentation.  The last is a degenerate period:
\* no attempts at all, so FTA_Rate is 0/0, and as many offensive rebounds
\* as turnovers, so the denominator of TOV% is zero under a numerator that
\* is not.
StatLines ==
    {[FG3A |-> 10, FG2A |-> 20, FTA |-> 15, Turnovers |-> 12, OffRebounds |-> 8],
     [FG3A |-> 12, FG2A |-> 18, FTA |-> 10, Turnovers |-> 9, OffRebounds |-> 5],
     [FG3A |-> 0, FG2A |-> 0, FTA |-> 0, Turnovers |-> 5, OffRebounds |-> 5]}

Abs(n) == IF n < 0 THEN -n ELSE n

RECURSIVE Gcd(_, _)
Gcd(a, b) == IF b = 0 THEN a ELSE Gcd(b, a % b)

\* A float as the exact quotient n/d in lowest terms with a positive
\* denominator; numpy's division by zero gives nan for 0/0 and +-inf
\* otherwise, written <<0, 0>>, <<1, 0>> and <<-1, 0>>.
NaN == <<0, 0>>
Quot_Mut(n, d) ==
    IF d = 0 THEN <<0, 1>>
    ELSE LET g == Gcd(Abs(n), Abs(d))
             sgn == IF d < 0 THEN -1 ELSE 1
         IN <<(sgn * n) \div g, (sgn * d) \div g>>
Quot(n, d) ==
    IF d = 0 THEN (IF n = 0 THEN NaN ELSE IF n > 0 THEN <<1, 0>> ELSE <<-1, 0>>)
    ELSE LET g == Gcd(Abs(n), Abs(d))
             sgn == IF d < 0 THEN -1 ELSE 1
         IN <<(sgn * n) \div g, (sgn * d) \div g>>

\* add_derived_cols on one row: FTA_Rate = FTA / fga,
\* TOV% = 100 * Turnovers / (fga + 0.44 * FTA + Turnovers - OffRebounds);
\* numerator and denominator of TOV% are scaled by 100 to stay integral.
DerivedRow(r) ==
    LET fga == r.FG3A + r.FG2A
    IN [r EXCEPT !.FTA_Rate = Quot(r.FTA, fga),
                 !.TOVpct = Quot(100 * 100 * r.Turnovers,
                                 100 * fga + 44 * r.FTA + 100 * r.Turnovers
                                   - 100 * r.OffRebounds)]

\* add_derived_cols assigns both columns over the whole frame.
add_derived_cols_Mut(rows) ==
    [i \in 1..Len(rows) |-> IF i = Len(rows) THEN DerivedRow(rows[i]) ELSE rows[i]]
add_derived_cols(rows) == [i \in 1..Len(rows) |-> DerivedRow(rows[i])]

\* pd.DataFrame([row]) of fetch_totals: the base columns and row["year"];
\* the derived columns are absent, NaN once concatenated with a file that
\* has them.
NewRow(year, st) ==
    [year |-> year, FG3A |-> st.FG3A, FG2A |-> st.FG2A, FTA |-> st.FTA,
     Turnovers |-> st.Turnovers, OffRebounds |-> st.OffRebounds,
     FTA_Rate |-> NaN, TOVpct |-> NaN]

\* existing[existing["year"] != year]
RemoveYear_Mut(rows, year) == <<>>
RemoveYear(rows, year) == SelectSeq(rows, LAMBDA r : r.year # year)

\* drop_duplicates(subset=["year"], keep="last")
DropDuplicatesKeepLast_Mut(rows) == rows
DropDuplicatesKeepLast(rows) ==
    LET keep == {i \in 1..Len(rows) :
                    \A j \in (i + 1)..Len(rows) : rows[j].year # rows[i].year}
        F[i \in 0..Len(rows)] ==
            IF i = 0 THEN <<>>
            ELSE IF i \in keep THEN Append(F[i - 1], rows[i]) ELSE F[i - 1]
    IN F[Len(rows)]

\* One row put in its place in a list sorted by year (after its equals).
RECURSIVE InsertByYear(_, _)
InsertByYear(sorted, r) ==
    IF sorted = <<>> THEN <<r>>
    ELSE IF r.year < Head(sorted).year THEN <<r>> \o sorted
    ELSE <<Head(sorted)>> \o InsertByYear(Tail(sorted), r)

\* sort_values("year").reset_index(drop=True)
sort_values_Mut(rows) == rows
sort_values(rows) ==
    LET F[i \in 0..Len(rows)] ==
            IF i = 0 THEN <<>> ELSE InsertByYear(F[i - 1], rows[i])
    IN F[Len(rows)]

AbsentCsv == [exists |-> FALSE, rows |-> <<>>]

\* update_csv(csv_path, new_data, year): the file it leaves.  A written
\* file holds the table as read back: to_csv / read_csv keep the integer
\* columns and the shortest-repr floats of the derived columns.
update_csv_Mut(file, new_data, year) ==
    [exists |-> TRUE, rows |-> add_derived_cols(sort_values(file.rows \o new_data))]
update_csv(file, new_data, year) ==
    LET existing == IF file.exists THEN RemoveYear(file.rows, year) ELSE <<>>
        combined == existing \o new_data
        deduped == DropDuplicatesKeepLast(combined)
        sorted == sort_values(deduped)
    IN [exists |-> TRUE, rows |-> add_derived_cols(sorted)]

\* The four datasets of main, in the order it syncs them.
Datasets == 1..4
DatasetFile(d) ==
    CASE d = 1 -> "season_totals.csv"
      [] d = 2 -> "season_totals_playoffs.csv"
      [] d = 3 -> "season_totals_leverage.csv"
      [] d = 4 -> "season_totals_playoffs_leverage.csv"

\* if not rs_data.empty: update_csv(file, rs_data, year)
MergeFetched_Mut(file, new_data, year) == update_csv(file, new_data, year)
MergeFetched(file, new_data, year) ==
    IF new_data # <<>> THEN update_csv(file, new_data, year) ELSE file

\* main goes from the section of dataset d to the next one, or to its last
\* line, whether the frame that fetch_totals returned was empty or not.
AfterDataset_Mut(d, empty) ==
    IF empty \/ d = 4 THEN [ds |-> d, tpc |-> "finish"]
                      ELSE [ds |-> d + 1, tpc |-> "fetch"]
AfterDataset(d, empty) ==
    IF d < 4 THEN [ds |-> d + 1, tpc |-> "fetch"]
             ELSE [ds |-> d, tpc |-> "finish"]

\* fetch_totals, one attempt: requests.get may raise; the status is not
\* looked at; resp.json() / data["single_row_table_data"] raise on a
\* malformed payload.
FetchTotalsParse(resp) ==
    IF resp = "transport_error" THEN "raise"
    ELSE IF ~HasTable(resp) THEN "raise"
    ELSE "table"

\* for attempt in range(1, max_retries + 1): is there a next pass?
HasNextAttempt(a) == a < max_retries

\* The two time.sleep(2) calls of a pass of the loop: the one in the try
\* block before every request, and the one of the except block, which is
\* left out after the last pass.
SleepBeforeRequest == <<"sleep_2_before_request">>
SleepAfterFailure(a) ==
    IF HasNextAttempt(a) THEN <<"sleep_2_after_failure">> ELSE <<>>

NoTLast == [kind |-> "none", ds |-> 0, attempt |-> 0, resp |-> "none"]

\* The table an earlier run left in an aggregate file: one row a year.
SyncedTable ==
    [exists |-> TRUE,
     rows |-> add_derived_cols(
                [y \in Years |->
                   NewRow(y, [FG3A |-> 10, FG2A |-> 20, FTA |-> 15,
                              Turnovers |-> 12, OffRebounds |-> 8])])]

\* One pass of fetch_totals that returns pd.DataFrame([row]); main finds
\* it non-empty, calls update_csv on the dataset's file and goes on.
TotalsAttemptOk ==
    /\ UNCHANGED <<onoffVars, mergeVars>>
    /\ tpc = "fetch"
    /\ \E resp \in Responses, st \in StatLines :
         /\ FetchTotalsParse(resp) = "table"
         /\ data' = [data EXCEPT ![DatasetFile(ds)] =
                       MergeFetched(@, <<NewRow(tyear, st)>>, tyear)]
         /\ tlast' = [kind |-> "success", ds |-> ds, attempt |-> attempt,
                      resp |-> resp]
    /\ tresult' = [tresult EXCEPT ![ds] = "ok"]
    /\ twaited' = SleepBeforeRequest
    /\ attempt' = 1
    /\ ds' = AfterDataset(ds, FALSE).ds
    /\ tpc' = AfterDataset(ds, FALSE).tpc
    /\ UNCHANGED <<tyear, texit>>

\* One pass of fetch_totals that raises: sleep and go round again, or at
\* the last pass return an empty frame, which main skips.
TotalsAttemptErr ==
    /\ UNCHANGED <<onoffVars, mergeVars>>
    /\ tpc = "fetch"
    /\ \E resp \in Responses : FetchTotalsParse(resp) = "raise"
    /\ IF HasNextAttempt(attempt)
       THEN /\ attempt' = attempt + 1
            /\ twaited' = SleepBeforeRequest \o SleepAfterFailure(attempt)
            /\ UNCHANGED <<ds, tpc, tresult, tlast, data>>
       ELSE /\ tresult' = [tresult EXCEPT ![ds] = "failed"]
            /\ tlast' = [kind |-> "failure", ds |-> ds, attempt |-> attempt,
                         resp |-> "none"]
            /\ twaited' = SleepBeforeRequest \o SleepAfterFailure(attempt)
            /\ attempt' = 1
            /\ data' = [data EXCEPT ![DatasetFile(ds)] =
                          MergeFetched(@, <<>>, tyear)]
            /\ ds' = AfterDataset(ds, TRUE).ds
            /\ tpc' = AfterDataset(ds, TRUE).tpc
    /\ UNCHANGED <<tyear, texit>>

\* print("Done."): main returns, the process exits 0.
TotalsDone ==
    /\ UNCHANGED <<onoffVars, mergeVars>>
    /\ tpc = "finish"
    /\ tpc' = "done"
    /\ texit' = 0
    /\ UNCHANGED <<ds, attempt, tyear, data, tresult, tlast, twaited>>

TotalsFiles == {DatasetFile(d) : d \in Datasets}

\* year = args.year or current_nba_season(); data/ is empty or holds the
\* four files of earlier runs.
InitTotals ==
    /\ tpc = "fetch"
    /\ ds = 1
    /\ attempt = 1
    /\ tyear \in Years
    /\ \E old \in BOOLEAN :
         data = [f \in TotalsFiles |-> IF old THEN SyncedTable ELSE AbsentCsv]
    /\ tresult = [d \in Datasets |-> "pending"]
    /\ tlast = NoTLast
    /\ twaited = <<>>
    /\ texit = -1

IdleTotals ==
    /\ tpc = "idle"
    /\ ds = 1
    /\ attempt = 1
    /\ tyear = 1
    /\ data = [f \in TotalsFiles |-> AbsentCsv]
    /\ tresult = [d \in Datasets |-> "pending"]
    /\ tlast = NoTLast
    /\ twaited = <<>>
    /\ texit = -1

IdleOnOff ==
    /\ pc = "idle"
    /\ team_ids = <<>>
    /\ leverage = TRUE
    /\ opp = FALSE
    /\ idx = 1
    /\ attempts = 0
    /\ reqs = 0
    /\ waited = <<>>
    /\ team_frames = <<>>
    /\ vs_frames = <<>>
    /\ fail_list = <<>>
    /\ returned = [l \in BOOLEAN |-> NoReturn]
    /\ files = [f \in FileNames |-> NoFile]
    /\ file_count = 0
    /\ exit_code = -1
    /\ cycles = [u \in Units |-> 0]
    /\ last = NoLast

\* ------------------------------------------ update_csv on one file, alone

\* Any row a file can hold: its derived columns as add_derived_cols
\* leaves them, or stale.
FileRows ==
    {NewRow(y, st) : y \in Years, st \in StatLines}
      \cup {DerivedRow(NewRow(y, st)) : y \in Years, st \in StatLines}

RECURSIVE Tables(_)
Tables(n) ==
    IF n = 0 THEN {<<>>}
    ELSE LET shorter == Tables(n - 1)
         IN shorter \cup {Append(t, r) : t \in {u \in shorter : Len(u) = n - 1},
                                         r \in FileRows}

NoCall == [valid |-> FALSE, year |-> 0, stat |-> CHOOSE st \in StatLines : TRUE,
           resync |-> FALSE, repeat |-> FALSE]

IdleMerge ==
    /\ csv = AbsentCsv
    /\ before = AbsentCsv
    /\ lastNew = NoCall
    /\ synced = {}

\* The file is absent, or holds any table of at most MaxInitRows rows, in
\* any order, with or without repeated years.
InitMerge ==
    /\ \/ csv = AbsentCsv
       \/ \E t \in Tables(MaxInitRows) : csv = [exists |-> TRUE, rows |-> t]
    /\ before = AbsentCsv
    /\ lastNew = NoCall
    /\ synced = {}

\* A call update_csv(csv_path, pd.DataFrame([row]), year) as main makes
\* it: the row carries the year it is merged under.
UpdateCsvCall ==
    /\ UNCHANGED <<onoffVars, totalsVars>>
    /\ \E y \in Years, st \in StatLines :
         /\ csv' = update_csv(csv, <<NewRow(y, st)>>, y)
         /\ lastNew' = [valid |-> TRUE, year |-> y, stat |-> st,
                        resync |-> y \in synced,
                        repeat |-> lastNew.valid /\ lastNew.year = y
                                     /\ lastNew.stat = st]
         /\ synced' = synced \cup {y}
    /\ before' = csv

\* ------------------------------------------------------------------ specs

\* One run of either program.
Init ==
    \/ InitOnOff /\ IdleTotals /\ IdleMerge
    \/ IdleOnOff /\ InitTotals /\ IdleMerge

Next ==
    \/ FetchTeamIds
    \/ FetchTeamIdsRaises
    \/ PullBlockEnter
    \/ AttemptOk
    \/ AttemptErr
    \/ NextSide
    \/ PullBlockReturn
    \/ Summary
    \/ TotalsAttemptOk
    \/ TotalsAttemptErr
    \/ TotalsDone

Spec == Init /\ [][Next]_vars

\* One run of fetch_onoff.py.
OnOffInit == InitOnOff /\ IdleTotals /\ IdleMerge

OnOffNext ==
    \/ FetchTeamIds
    \/ FetchTeamIdsRaises
    \/ PullBlockEnter
    \/ AttemptOk
    \/ AttemptErr
    \/ NextSide
    \/ PullBlockReturn
    \/ Summary

OnOffSpec == OnOffInit /\ [][OnOffNext]_vars

\* The program is sequential and single-threaded: whenever it can take a
\* step it does, every remote request returning or raising in the end
\* (REQUEST_TIMEOUT bounds connect and read).
FairSpec == OnOffSpec /\ WF_vars(OnOffNext)

\* One run of fetch_season_totals.py.
TotalsInit == IdleOnOff /\ InitTotals /\ IdleMerge

TotalsNext ==
    \/ TotalsAttemptOk
    \/ TotalsAttemptErr
    \/ TotalsDone

TotalsSpec == TotalsInit /\ [][TotalsNext]_vars

\* update_csv called again and again on one file.
MergeInit == IdleOnOff /\ IdleTotals /\ InitMerge
MergeNext == UpdateCsvCall

MergeSpec == MergeInit /\ [][MergeNext]_vars

\* ----------------------------------------------------------------- claims

\* The accumulators of the block run with leverage = l: what it returned,
\* or, while it runs, its locals.
Acc(l) ==
    IF returned[l].done THEN returned[l]
    ELSE IF pc = "loop" /\ leverage = l
    THEN [done |-> FALSE, team_frames |-> team_frames, vs_frames |-> vs_frames,
          fail_list |-> fail_list]
    ELSE NoReturn

Frames(l, o) == IF o THEN Acc(l).vs_frames ELSE Acc(l).team_frames

\* How often the unit (l, o, t) is in the success accumulator of its role,
\* and how often in the failure list.
InFrames(l, o, t) ==
    Cardinality({i \in 1..Len(Frames(l, o)) : Frames(l, o)[i].team_id = t})
InFails(l, o, t) ==
    Cardinality({i \in 1..Len(Acc(l).fail_list) :
                    Acc(l).fail_list[i] = <<t, Side(o)>>})

Roster == {team_ids[i] : i \in 1..Len(team_ids)}

AllFails == returned[TRUE].fail_list \o returned[FALSE].fail_list

\* C1: no unit gets more than its fetcher's retry ceiling of remote
\* requests (MAX_RETRIES in pull_block, max_retries in fetch_totals); a
\* unit that succeeded did so with an attempt count within the ceiling, a
\* unit recorded as failed has an attempt count of exactly the ceiling.
C1_RetryCeiling ==
    /\ reqs <= MAX_RETRIES
    /\ attempts <= MAX_RETRIES
    /\ last.kind = "success" =>
         last.attempts <= MAX_RETRIES /\ last.requests <= MAX_RETRIES
    /\ last.kind = "failure" =>
         last.attempts = MAX_RETRIES /\ last.requests = MAX_RETRIES
    /\ attempt <= max_retries
    /\ tlast.kind = "success" => tlast.attempt <= max_retries
    /\ tlast.kind = "failure" => tlast.attempt = max_retries

\* C1 witness: a unit succeeded at its last permitted request, after an
\* earlier unit of the block had failed terminally.
C1_Witness ==
    /\ last.kind = "success"
    /\ last.requests = MAX_RETRIES
    /\ fail_list # <<>>

\* C2: a block that returned holds every unit of roster x {Team, Opponent}
\* exactly once, in the success accumulator of its role or in fail_list
\* and never in both; while it runs the same holds of the units it has
\* passed, so a terminal failure leaves the loop running.
C2_BlockPartition ==
    \A l \in BOOLEAN :
      /\ \A o \in BOOLEAN, t \in TeamIds :
           /\ InFrames(l, o, t) + InFails(l, o, t) <= 1
           /\ InFrames(l, o, t) + InFails(l, o, t) = cycles[<<l, o, t>>]
      /\ \A o \in BOOLEAN : \A i \in 1..Len(Frames(l, o)) :
           Frames(l, o)[i].team_vs = o
      /\ returned[l].done =>
           /\ \A o \in BOOLEAN, t \in Roster :
                InFrames(l, o, t) + InFails(l, o, t) = 1
           /\ Len(returned[l].team_frames) + Len(returned[l].vs_frames)
                + Len(returned[l].fail_list) = 2 * Len(team_ids)

\* C2 witness: a block returned with failed and with successful units.
C2_Witness ==
    /\ returned[TRUE].done
    /\ Len(team_ids) = MaxTeams
    /\ Len(returned[TRUE].fail_list) >= 2
    /\ returned[TRUE].team_frames # <<>>
    /\ returned[TRUE].vs_frames # <<>>

\* Every table the run fetched with more than MIN_ROWS rows is on disk as
\* this run wrote it.
SuccessesPersisted ==
    \A l \in BOOLEAN, o \in BOOLEAN :
      \A i \in 1..Len(Frames(l, o)) :
        LET df == Frames(l, o)[i]
        IN df.rows > MIN_ROWS =>
             files[get_filename(df.team_id, o, l)] =
               [exists |-> TRUE, rows |-> df.rows, run |-> 1]

\* C3 as stated: the process exits 1 exactly when lev_fails + nl_fails is
\* non-empty, the fetched files being on disk.
C3_Original ==
    exit_code # -1 =>
      /\ exit_code = 1 <=> AllFails # <<>>
      /\ SuccessesPersisted

\* C3 amended: a run whose roster was resolved exits 1 exactly when
\* lev_fails + nl_fails is non-empty and 0 otherwise; the files of the
\* units that succeeded are on disk when the status is decided and when
\* the run has exited.  (A run whose roster cannot be resolved exits 1
\* with no failure recorded.)
C3_ExitStatus ==
    /\ pc = "exited" =>
         /\ exit_code \in {0, 1}
         /\ exit_code = 1 <=> AllFails # <<>>
    /\ pc \in {"summary", "exited"} => SuccessesPersisted
    /\ pc \notin {"exited", "aborted"} => exit_code = -1

\* C3 witness: a run exited 1 with one failure only, a file of its own
\* on disk.
C3_Witness ==
    /\ pc = "exited"
    /\ exit_code = 1
    /\ Len(AllFails) = 1
    /\ \E f \in FileNames : files[f].run = 1

YearsOf(rows) == {rows[i].year : i \in 1..Len(rows)}
RowsOf(rows) == {rows[i] : i \in 1..Len(rows)}
RowsFor(rows, y) == {i \in 1..Len(rows) : rows[i].year = y}

\* Some year is in the table more than once.
HasRepeatedYear(rows) ==
    \E i, j \in 1..Len(rows) : i < j /\ rows[i].year = rows[j].year

\* C4: whatever table the file held and whatever years were merged in
\* whatever order, the table update_csv leaves has no two rows of the
\* same year.
C4_UniqueKey ==
    lastNew.valid => csv.exists /\ ~HasRepeatedYear(csv.rows)

\* C4 witness: update_csv found a file that held another year twice and
\* left it once.
C4_Witness ==
    /\ lastNew.valid
    /\ \E i, j \in 1..Len(before.rows) :
         /\ i < j
         /\ before.rows[i].year = before.rows[j].year
         /\ before.rows[i].year # lastNew.year
         /\ Cardinality(RowsFor(csv.rows, before.rows[i].year)) = 1

\* C5: a call of update_csv with the row of the call before it leaves the
\* file as that call left it, with exactly one row for the year.
C5_MergeIdempotent ==
    lastNew.repeat =>
      /\ csv = before
      /\ Cardinality(RowsFor(csv.rows, lastNew.year)) = 1

\* C5 witness: the same row was merged twice in succession into a file
\* that holds other years too.
C5_Witness ==
    /\ lastNew.repeat
    /\ Len(csv.rows) > 1
    /\ DerivedRow(NewRow(lastNew.year, lastNew.stat)) \in RowsOf(csv.rows)

\* C6: update_csv for a year k it has merged before leaves exactly one
\* row for k, the new one, and every row of another year that the file
\* held is in it unchanged.
C6_ReplaceFrame ==
    lastNew.resync =>
      /\ \A i \in RowsFor(csv.rows, lastNew.year) :
           csv.rows[i] = DerivedRow(NewRow(lastNew.year, lastNew.stat))
      /\ Cardinality(RowsFor(csv.rows, lastNew.year)) = 1
      /\ \A i \in 1..Len(before.rows) :
           before.rows[i].year # lastNew.year =>
             before.rows[i] \in RowsOf(csv.rows)
      /\ Len(csv.rows) = Len(before.rows)

\* C6 witness: the row of a synced year was replaced by one with other
\* values in a file that holds two more years.
C6_Witness ==
    /\ lastNew.resync
    /\ \E i \in RowsFor(before.rows, lastNew.year) :
         before.rows[i] # DerivedRow(NewRow(lastNew.year, lastNew.stat))
    /\ Cardinality(YearsOf(before.rows) \ {lastNew.year}) >= 2
    /\ csv # before

\* C7: the table update_csv leaves is in ascending order of year.
C7_SortedByYear ==
    lastNew.valid =>
      \A i, j \in 1..Len(csv.rows) : i < j => csv.rows[i].year < csv.rows[j].year

\* C7 witness: update_csv found rows of other years in descending order
\* and merged a year that belongs between them.
C7_Witness ==
    /\ lastNew.valid
    /\ \E i, j \in 1..Len(before.rows) :
         /\ i < j
         /\ before.rows[i].year > lastNew.year
         /\ lastNew.year > before.rows[j].year
    /\ Len(csv.rows) = 3

\* The denominators of the derived columns of a row, the one of TOV%
\* scaled by 100 as its numerator is.
Fga(r) == r.FG3A + r.FG2A
TovDen100(r) == 100 * Fga(r) + 44 * r.FTA + 100 * r.Turnovers - 100 * r.OffRebounds

\* q is the finite number n / d.
IsQuotient(q, n, d) == q[2] > 0 /\ q[1] * d = n * q[2]

\* C11: after update_csv every row of the file, the rows it held before as
\* well as the merged one, has FTA_Rate = FTA / (FG3A + FG2A) and
\* TOV% = 100 * Turnovers / (FG3A + FG2A + 0.44 * FTA + Turnovers -
\* OffRebounds) of its own base columns; the row FG3A=10, FG2A=20, FTA=15,
\* Turnovers=12, OffRebounds=8 has FTA_Rate = 1/2 and TOV% = 1200/40.6
\* (= 6000/203).
C11_DerivedColumns ==
    lastNew.valid =>
      \A i \in 1..Len(csv.rows) :
        LET r == csv.rows[i]
        IN /\ Fga(r) # 0 => IsQuotient(r.FTA_Rate, r.FTA, Fga(r))
           /\ TovDen100(r) # 0 =>
                IsQuotient(r.TOVpct, 100 * 100 * r.Turnovers, TovDen100(r))
           /\ (r.FG3A = 10 /\ r.FG2A = 20 /\ r.FTA = 15 /\ r.Turnovers = 12
                 /\ r.OffRebounds = 8) =>
                r.FTA_Rate = <<1, 2>> /\ r.TOVpct = <<6000, 203>>

\* C11 witness: update_csv found a row of another year whose derived
\* columns were stale, the example row, and left it with 1/2 and 6000/203
\* before the row it merged.
C11_Witness ==
    /\ lastNew.valid
    /\ Len(csv.rows) >= 2
    /\ \E i \in 1..Len(before.rows) :
         /\ before.rows[i].year < lastNew.year
         /\ before.rows[i].FG3A = 10
         /\ before.rows[i].FTA_Rate = NaN
    /\ csv.rows[1].FG3A = 10
    /\ csv.rows[1].FTA_Rate = <<1, 2>>
    /\ csv.rows[1].TOVpct = <<6000, 203>>

C8_ThresholdSkip ==
    /\ \A l \in BOOLEAN, o \in BOOLEAN :
         \A i \in 1..Len(Frames(l, o)) :
           LET df == Frames(l, o)[i]
               f == files[get_filename(df.team_id, o, l)]
           IN /\ (f.run = 1) <=> (df.rows > MIN_ROWS)
              /\ f.run = 1 => f.exists /\ f.rows = df.rows
              /\ InFails(l, o, df.team_id) = 0
    /\ last.kind = "success" =>
         /\ Frames(last.lev, last.opp) # <<>>
         /\ LET fr == Frames(last.lev, last.opp)
            IN fr[Len(fr)] = [team_id |-> last.team_id, team_vs |-> last.opp,
                              rows |-> last.rows]

\* C8 witness: the last unit came back with exactly 2 rows: it has no
\* file, it is in its accumulator, and the failure list is empty.
C8_Witness ==
    /\ last.kind = "success"
    /\ last.rows = 2
    /\ files[get_filename(last.team_id, last.opp, last.lev)] = NoFile
    /\ InFrames(last.lev, last.opp, last.team_id) = 1
    /\ fail_list = <<>>
    /\ \E f \in FileNames : files[f].run = 1

\* C9 as stated: fetch_season_totals.main exits 0 when every fetch of
\* the run succeeded and 1 when a dataset exhausted its retries.
C9_ExitReflectsFailures ==
    tpc = "done" =>
      texit = IF \E d \in Datasets : tresult[d] = "failed" THEN 1 ELSE 0

\* C10: a started run ends (it exits from the summary, or aborts on the
\* roster), no unit ever goes through a second attempt cycle, and at the
\* exit every unit of {leverage, non-leverage} x {Team, Opponent} x roster
\* has gone through exactly one, whatever failed before it.
C10_NoEarlyStop ==
    /\ (pc = "main") ~> (pc \in {"exited", "aborted"})
    /\ [](\A u \in Units : cycles[u] <= 1)
    /\ [](pc = "exited" =>
            \A l \in BOOLEAN, o \in BOOLEAN, t \in TeamIds :
              cycles[<<l, o, t>>] = IF t \in Roster THEN 1 ELSE 0)

\* C10 witness: the run exited after every unit went through its cycle,
\* the first unit of each block having failed.
C10_Witness ==
    /\ pc = "exited"
    /\ Len(team_ids) = MaxTeams
    /\ \A l \in BOOLEAN : returned[l].fail_list # <<>>
                            /\ returned[l].fail_list[1] = <<team_ids[1], "Team">>
    /\ \A l \in BOOLEAN, o \in BOOLEAN, t \in Roster : cycles[<<l, o, t>>] = 1

\* C12: one SLEEP_BETWEEN wait lies between the end of every unit and the
\* first request of the next one, whether the unit succeeded or ran out of
\* attempts: whenever a unit has ended and the next one has sent no request
\* yet, the waits since the last request are one SLEEP_BETWEEN.
C12_PacingAfterEveryUnit ==
    (InUnit /\ reqs = 0 /\ last.kind # "none") => waited = <<"SLEEP_BETWEEN">>

\* C13: in both fetchers a response whose status is not 2xx is a failed
\* attempt, whatever its body holds: the response that a unit or a dataset
\* succeeded with has a 2xx status.
C13_StatusChecked ==
    /\ last.kind = "success" => StatusOk(last.resp)
    /\ tlast.kind = "success" => StatusOk(tlast.resp)

\* The place of team t in the roster, and the place of a unit in the order
\* leverage block before non-leverage block, Team before Opponent, roster
\* order within a role.
Pos(t) == CHOOSE i \in 1..Len(team_ids) : team_ids[i] = t
Rank(l, o, t) ==
    (IF l THEN 0 ELSE 2 * Len(team_ids)) + (IF o THEN Len(team_ids) ELSE 0) + Pos(t)
FailRank(e) == (IF e[2] = "Opponent" THEN Len(team_ids) ELSE 0) + Pos(e[1])

\* C14: the order of the units is fixed by the roster.  At every moment the
\* units attempted so far are an initial segment of the order leverage
\* block, then non-leverage block; in a block Team, then Opponent; in a
\* role the roster order; the unit that the requests go to is the first
\* one not attempted yet, whatever the outcomes were; the tables of a role
\* and the entries of a failure list stand in that order.
C14_UnitOrder ==
    /\ \A l1, o1, l2, o2 \in BOOLEAN, t1, t2 \in Roster :
         (Rank(l1, o1, t1) < Rank(l2, o2, t2) /\ cycles[<<l2, o2, t2>>] > 0)
           => cycles[<<l1, o1, t1>>] > 0
    /\ InUnit =>
         /\ cycles[<<leverage, opp, team_ids[idx]>>] = 0
         /\ \A l \in BOOLEAN, o \in BOOLEAN, t \in Roster :
              Rank(l, o, t) < Rank(leverage, opp, team_ids[idx])
                => cycles[<<l, o, t>>] > 0
    /\ \A l \in BOOLEAN, o \in BOOLEAN :
         \A i, j \in 1..Len(Frames(l, o)) :
           i < j => Pos(Frames(l, o)[i].team_id) < Pos(Frames(l, o)[j].team_id)
    /\ \A l \in BOOLEAN :
         \A i, j \in 1..Len(Acc(l).fail_list) :
           i < j => FailRank(Acc(l).fail_list[i]) < FailRank(Acc(l).fail_list[j])

\* C14 witness: a run over two teams has ended in which the first team
\* succeeded and the second failed on the Team side, the first failed and
\* the second succeeded on the Opponent side of the leverage block, and
\* all units of the other block failed: the failure lists are
\* (2, Team), (1, Opponent) and then the four units of the second block in
\* their order.
C14_Witness ==
    /\ pc = "exited"
    /\ Len(team_ids) = 2
    /\ returned[TRUE].fail_list = <<<<team_ids[2], "Team">>, <<team_ids[1], "Opponent">>>>
    /\ returned[FALSE].fail_list =
         <<<<team_ids[1], "Team">>, <<team_ids[2], "Team">>,
           <<team_ids[1], "Opponent">>, <<team_ids[2], "Opponent">>>>
    /\ \A u \in Units : cycles[u] = 1

\* How many of the waits in the sequence w are the wait named x.
CountOf(w, x) == Cardinality({i \in 1..Len(w) : w[i] = x})

C17_RosterAbort ==
    pc = "aborted" =>
      /\ reqs = 0 /\ attempts = 0
      /\ \A u \in Units : cycles[u] = 0
      /\ last = NoLast
      /\ \A l \in BOOLEAN : returned[l] = NoReturn
      /\ \/ \A f \in FileNames : files[f] = NoFile
         \/ \A f \in FileNames : files[f] = OldFile

\* C17 witness: fetch_team_ids raised in a directory that holds the files
\* of an earlier run, and they are all still there.
C17_Witness ==
    /\ pc = "aborted"
    /\ exit_code = 1
    /\ \A f \in FileNames : files[f] = OldFile

\* C18: the four aggregate datasets are synced one by one, each on its own.
\* When main is through, every dataset was fetched, those after a dataset
\* that failed as well; a dataset that was fetched has the row of the year
\* in its file; and a step of the run changes no file but the one of the
\* dataset it fetched successfully.
C18_IndependentSync ==
    /\ [](tpc \in {"finish", "done"} => \A d \in Datasets : tresult[d] # "pending")
    /\ [](\A d \in Datasets :
            tresult[d] = "ok" =>
              /\ data[DatasetFile(d)].exists
              /\ Cardinality(RowsFor(data[DatasetFile(d)].rows, tyear)) = 1)
    /\ [][\A f \in TotalsFiles :
            data'[f] # data[f] => (f = DatasetFile(ds) /\ tresult'[ds] = "ok")]_vars

\* C18 witness: the first dataset failed for good, the second was fetched
\* after it and merged into its file, and the three other files are the
\* tables the earlier run left.
C18_Witness ==
    /\ tpc = "fetch"
    /\ tresult = [d \in Datasets |-> IF d = 1 THEN "failed"
                                    ELSE IF d = 2 THEN "ok" ELSE "pending"]
    /\ data[DatasetFile(2)] # SyncedTable
    /\ \A d \in {1, 3, 4} : data[DatasetFile(d)] = SyncedTable

\* C19: the number of files that a run reports as written is the number
\* of output files that this run wrote, also when the directory held files
\* of an earlier run.
C19_FilesWrittenCount ==
    pc = "exited" =>
      file_count = Cardinality({f \in FileNames : files[f].exists /\ files[f].run = 1})

\* C20: a fetch that failed for good changes no file.  The step of
\* pull_block that records a unit in the failure list and the step of
\* fetch_season_totals in which a dataset runs out of attempts leave every
\* file as it was; so the file of a unit in a failure list is not a file of
\* this run, and the file of a dataset that failed is the one the run
\* found, absent or the table of the earlier run.
C20_FailureKeepsFiles ==
    /\ [][Len(fail_list') = Len(fail_list) + 1 => files' = files]_vars
    /\ [][(tresult[ds] = "pending" /\ tresult'[ds] = "failed") => data' = data]_vars
    /\ [](\A l \in BOOLEAN, o \in BOOLEAN, t \in TeamIds :
            InFails(l, o, t) > 0 =>
              files[get_filename(t, o, l)] \in {NoFile, OldFile})
    /\ [](\A d \in Datasets :
            tresult[d] = "failed" =>
              data[DatasetFile(d)] \in {AbsentCsv, SyncedTable})

\* C20 witness: the last dataset ran out of attempts after the three
\* before it were merged, and its file still is the table of the earlier
\* run, the row of the year included.
C20_Witness ==
    /\ tlast.kind = "failure"
    /\ tlast.ds = 4
    /\ \A d \in 1..3 : tresult[d] = "ok"
    /\ data[DatasetFile(4)] = SyncedTable
    /\ RowsFor(data[DatasetFile(4)].rows, tyear) # {}

====
